---------------------------- MODULE Spec2Model ----------------------------
(***************************************************************************)
(* A model of the paywalls CLI (paywalls-net/access).                      *)
(*                                                                         *)
(* The register command (src/src/cli/register.ts) is modelled as a state   *)
(* machine whose steps are the stretches of code between two suspension    *)
(* points (an await of a network call or of the timed wait), together with *)
(* the configuration loader and the HTTP client it uses                    *)
(* (src/unnamed/part_000) and the flag parser (src/src/cli/util.ts).       *)
(* The doctor command (src/src/cli/doctor.ts) is modelled the same way,    *)
(* under its own specification SpecDoctor; loadConfig and the response     *)
(* half of ApiClient.request are also exercised as functions, under        *)
(* SpecConfig and SpecApi.                                                 *)
(*                                                                         *)
(* Modelling conventions:                                                  *)
(*  - JavaScript undefined is the value Undef; the boolean true stored in  *)
(*    the flag map is the value FlagTrue (flag values are otherwise        *)
(*    strings).                                                            *)
(*  - A command-line argument is kept as its parts: whether it starts with *)
(*    "--", the text up to the first "=", whether there is an "=", and the *)
(*    text after it.                                                       *)
(*  - Time advances only in sleep(); elapsedMs is therefore a lower bound  *)
(*    on the time since the device code was issued.                        *)
(*  - Writes to the file system are assumed to succeed.                    *)
(***************************************************************************)
EXTENDS Integers, Sequences, FiniteSets, TLC

VARIABLES
    args,          \* process arguments after the command name
    env,           \* process.env (the PAYWALLS_* variables)
    headlessEnv,   \* what isHeadless() returns in this environment
    credFile,      \* ~/.config/paywalls/credentials.json (NoCredFile: none)
    pc,            \* position of the command
    outcome,       \* outcome of the device-authorization session
    exitCode,      \* process exit status (NoExit while running)
    configBaseUrl, \* config.baseUrl of register
    client,        \* the ApiClient's resolved config
    codeRes,       \* let codeRes (NoResponse until the request has ended)
    device_code,   \* codeRes.data.device_code
    expires_in,    \* codeRes.data.expires_in
    serverInterval,\* codeRes.data.interval
    intervalMs,    \* let intervalMs
    aborted,       \* let aborted
    sigintHandler, \* whether onAbort is registered for SIGINT
    calls,         \* the network requests issued, in order
    responses,     \* register: the token-exchange outcomes received, in
                   \* order; doctor: what fetch came back with, in order
    credWrites,    \* the records passed to saveCredentials, in order
    browserOpens,  \* number of browser processes spawned
    output,        \* what was printed, in order
    elapsedMs,     \* time slept since the device code was issued
    checks,        \* doctor: const checks
    accountId,     \* doctor: let accountId
    report,        \* doctor: the passed / total it printed (NoReport: none)
    fnIn,          \* SpecConfig, SpecApi: the arguments of the function
    fnOut          \* SpecConfig, SpecApi: what it returned

vars == << args, env, headlessEnv, credFile, pc, outcome,
           exitCode, configBaseUrl, client, codeRes, device_code, expires_in,
           serverInterval, intervalMs, aborted, sigintHandler, calls,
           responses, credWrites, browserOpens, output, elapsedMs,
           checks, accountId, report, fnIn, fnOut >>

---------------------------------------------------------------------------
(* Bounds of the model *)

\* largest number of token-exchange calls of one run
MaxPolls == 3
\* largest poll interval (seconds) the server hands out
MaxInterval == 1
\* largest expires_in (seconds) the server hands out
MaxExpiry == 2
\* the number every larger number is counted as (parseInt of a long digit
\* string)
MaxNumber == 1000000

---------------------------------------------------------------------------
(* Values *)

Undef == "<undefined>"
FlagTrue == "<true>"
NoExit == -1

DEFAULT_BASE_URL == "https://api.paywalls.net"
GRANT_TYPE == "urn:ietf:params:oauth:grant-type:device_code"
SlowDownIncrementMs == 5000

Arg(key) == [dd |-> TRUE, key |-> key, eq |-> FALSE, val |-> ""]
ArgEq(key, val) == [dd |-> TRUE, key |-> key, eq |-> TRUE, val |-> val]
Bare(val) == [dd |-> FALSE, key |-> "", eq |-> FALSE, val |-> val]

FlagNames ==
    {"json", "headless", "force", "incognito", "base-url", "api-key",
     "limit", "offset", "type", "domain"}

\* the command lines the model starts from
ArgLists ==
    { << >>,
      << Arg("json") >>,
      << Arg("force") >>,
      << Arg("headless") >>,
      << Arg("json"), Arg("force") >>,
      << ArgEq("base-url", "http://localhost:3000") >>,
      << Arg("base-url"), Bare("http://localhost:3000") >>,
      << Arg("force"), ArgEq("base-url", "http://localhost:3000") >> }

Envs ==
    [ PAYWALLS_API_KEY : {Undef, "", "ENV-KEY"},
      PAYWALLS_BASE_URL : {Undef, "https://env.example"},
      PAYWALLS_ACCOUNT_ID : {Undef} ]
\* no credentials file: loadCredentialsFile catches the read error and
\* returns {}, every field of which reads as undefined
NoCredFile == [api_key |-> Undef, account_id |-> Undef, base_url |-> Undef]

CredFiles ==
    { NoCredFile,
      [api_key |-> "FILE-KEY", account_id |-> "FILE-ACCT",
       base_url |-> "https://file.example"] }

NetErr == [kind |-> "throw"]
NoResponse == [kind |-> "none"]
NoReport == [passed |-> 0, total |-> 0]

\* what POST /api/device/code may come back with
CodeResponses ==
    { NetErr }
    \cup { [kind |-> "http", ok |-> FALSE, status |-> 500, device_code |-> Undef,
            expires_in |-> 0, interval |-> 0] }
    \cup { [kind |-> "http", ok |-> TRUE, status |-> 200, device_code |-> "WDJB-WNRH",
            expires_in |-> e, interval |-> i] :
              e \in {MaxExpiry}, i \in 0..MaxInterval }

Http(ok, status, err, key, acct) ==
    [kind |-> "http", ok |-> ok, status |-> status, error |-> err,
     api_key |-> key, account_id |-> acct]

\* what POST /api/device/token may come back with
TokenResponses ==
    { NetErr,
      Http(TRUE, 200, Undef, "NEW-KEY", "NEW-ACCT"),
      Http(TRUE, 200, Undef, Undef, Undef),
      Http(FALSE, 428, "authorization_pending", Undef, Undef),
      Http(FALSE, 400, "authorization_pending", Undef, Undef),
      Http(FALSE, 429, "slow_down", Undef, Undef),
      Http(FALSE, 400, "slow_down", Undef, Undef),
      Http(FALSE, 400, "expired_token", Undef, Undef),
      Http(FALSE, 400, "access_denied", Undef, Undef),
      Http(FALSE, 503, "service_unavailable", Undef, Undef) }

---------------------------------------------------------------------------
(* Pure functions *)

\* a ?? b
Coalesce(a, b) == IF a = Undef THEN b ELSE a

RECURSIVE ParseFrom(_, _, _)
ParseFrom(a, i, flags) ==
    IF i > Len(a) THEN flags
    ELSE IF a[i].dd /\ a[i].key \in FlagNames
         THEN ParseFrom(a, i + 1,
                [flags EXCEPT ![a[i].key] = IF a[i].eq THEN a[i].val ELSE FlagTrue])
         ELSE ParseFrom(a, i + 1, flags)

parseFlags(a) == ParseFrom(a, 1, [n \in FlagNames |-> Undef])

IsString(v) == v # Undef /\ v # FlagTrue

loadCredentialsFile(file) ==
    [apiKey |-> file.api_key, accountId |-> file.account_id,
     baseUrl |-> file.base_url]

NoOverrides == [apiKey |-> Undef, accountId |-> Undef, baseUrl |-> Undef]

loadConfig(overrides, e, file) ==
    LET f == loadCredentialsFile(file) IN
    [ apiKey    |-> Coalesce(overrides.apiKey,
                             Coalesce(e.PAYWALLS_API_KEY, Coalesce(f.apiKey, ""))),
      baseUrl   |-> Coalesce(overrides.baseUrl,
                             Coalesce(e.PAYWALLS_BASE_URL,
                                      Coalesce(f.baseUrl, DEFAULT_BASE_URL))),
      accountId |-> Coalesce(overrides.accountId,
                             Coalesce(e.PAYWALLS_ACCOUNT_ID, f.accountId)) ]

hasCredentialsNever(e, file) == FALSE

hasCredentials(e, file) == loadConfig(NoOverrides, e, file).apiKey # ""

saveCredentialsDefaultUrl(creds) ==
    [api_key |-> creds.api_key, account_id |-> creds.account_id,
     base_url |-> DEFAULT_BASE_URL]

saveCredentials(creds) ==
    [api_key |-> creds.api_key, account_id |-> creds.account_id,
     base_url |-> Coalesce(creds.base_url, DEFAULT_BASE_URL)]

RequestWithoutAuth(cfg, method, path, dc, gt) ==
    [ method |-> method, base |-> cfg.baseUrl, path |-> path,
      auth |-> Undef, device_code |-> dc, grant_type |-> gt ]

\* the request ApiClient.request hands to fetch
Request(cfg, method, path, dc, gt) ==
    [ method |-> method, base |-> cfg.baseUrl, path |-> path,
      auth |-> IF cfg.apiKey # Undef /\ cfg.apiKey # "" THEN cfg.apiKey ELSE Undef,
      device_code |-> dc, grant_type |-> gt ]

Json(tag, fields) == [mode |-> "json", tag |-> tag, fields |-> fields]
Text(tag) == [mode |-> "text", tag |-> tag, fields |-> {}]
Progress(tag) == [mode |-> "progress", tag |-> tag, fields |-> {}]

flags == parseFlags(args)
jsonMode == flags["json"] = FlagTrue
headless == flags["headless"] = FlagTrue \/ headlessEnv
force == flags["force"] = FlagTrue

\* console output of one branch: the JSON record in --json mode, the lines
\* otherwise
Say(jsonRec, textLines) == output \o (IF jsonMode THEN jsonRec ELSE textLines)

ErrorFields == {"error", "reason", "resolution"}

---------------------------------------------------------------------------
(* register: initial state *)

\* register has not run
RegisterIdle ==
    /\ outcome = "requesting"
    /\ exitCode = NoExit
    /\ configBaseUrl = Undef
    /\ client = [apiKey |-> Undef, accountId |-> Undef, baseUrl |-> Undef]
    /\ codeRes = NoResponse
    /\ device_code = Undef
    /\ expires_in = 0
    /\ serverInterval = 0
    /\ intervalMs = 0
    /\ aborted = FALSE
    /\ sigintHandler = FALSE
    /\ calls = << >>
    /\ responses = << >>
    /\ credWrites = << >>
    /\ browserOpens = 0
    /\ output = << >>
    /\ elapsedMs = 0

\* doctor has not run, no function was applied
OtherIdle ==
    /\ checks = << >>
    /\ accountId = Undef
    /\ report = NoReport
    /\ fnIn = NoResponse
    /\ fnOut = NoResponse

Init ==
    /\ args \in ArgLists
    /\ env \in Envs
    /\ headlessEnv \in BOOLEAN
    /\ credFile \in CredFiles
    /\ pc = "start"
    /\ RegisterIdle
    /\ OtherIdle

otherVars == << checks, accountId, report, fnIn, fnOut >>
inputVars == << args, env, headlessEnv >>
codeVars == << device_code, expires_in, serverInterval >>
sessionVars == << codeRes, codeVars >>

\* process.exit(code)
Exit(code, oc) == pc' = "exited" /\ exitCode' = code /\ outcome' = oc

---------------------------------------------------------------------------
(* register: from the start to the first request (register.ts 70-105) *)

Register ==
    /\ pc = "start"
    /\ IF ~force /\ hasCredentials(env, credFile)
       THEN /\ output' = Say(<< Json("error", ErrorFields) >>,
                             << Text("Credentials already exist"),
                                Text("Use --force to overwrite") >>)
            /\ Exit(1, "refused")
            /\ UNCHANGED << configBaseUrl, client, calls >>
       ELSE LET baseFlag == flags["base-url"]
                config == loadConfig(
                    [NoOverrides EXCEPT
                        !.baseUrl = IF IsString(baseFlag) THEN baseFlag ELSE Undef],
                    env, credFile)
                cl == loadConfig([NoOverrides EXCEPT !.baseUrl = config.baseUrl],
                                 env, credFile)
            IN  /\ configBaseUrl' = config.baseUrl
                /\ client' = cl
                /\ output' = Say(<< >>, << Text("Registering device...") >>)
                /\ calls' = Append(calls,
                       Request(cl, "POST", "/api/device/code", Undef, Undef))
                /\ pc' = "awaitCode"
                /\ UNCHANGED << outcome, exitCode >>
    /\ UNCHANGED << otherVars, inputVars, sessionVars, credFile, intervalMs, aborted,
                    sigintHandler, responses, credWrites, browserOpens,
                    elapsedMs >>

(* the device-code request has failed or come back (register.ts 106-180) *)

\* catch: the request threw
CodeRequestThrows ==
    /\ output' = Say(<< Json("error", ErrorFields) >>,
                     << Text("Cannot reach API"),
                        Text("Check your internet connection and base URL") >>)
    /\ Exit(1, "failed")
    /\ UNCHANGED << codeVars, intervalMs, sigintHandler, browserOpens >>

\* openBrowser(url, opts): a no-op when isHeadless(), one exec otherwise
openBrowser(n) == IF headlessEnv THEN n ELSE n + 1

CodeIssuedDropsCode(r) ==
    /\ device_code' = Undef
    /\ expires_in' = r.expires_in
    /\ serverInterval' = r.interval
    /\ output' = Say(<< Json("pending", {"status", "user_code",
                                         "verification_uri_complete",
                                         "expires_in"}) >>,
                     << Text("Your code is"), Text("Open this URL to authorize"),
                        Text("Waiting for authorization...") >>)
    /\ browserOpens' = IF ~headless THEN openBrowser(browserOpens)
                                    ELSE browserOpens
    /\ intervalMs' = r.interval * 1000
    /\ sigintHandler' = TRUE
    /\ pc' = "sleeping"
    /\ outcome' = "pending"
    /\ UNCHANGED exitCode

\* the code was issued: show it, open the browser, install onAbort, enter
\* the loop and start the first wait
CodeIssued(r) ==
    /\ device_code' = r.device_code
    /\ expires_in' = r.expires_in
    /\ serverInterval' = r.interval
    /\ output' = Say(<< Json("pending", {"status", "user_code",
                                         "verification_uri_complete",
                                         "expires_in"}) >>,
                     << Text("Your code is"), Text("Open this URL to authorize"),
                        Text("Waiting for authorization...") >>)
    /\ browserOpens' = IF ~headless THEN openBrowser(browserOpens)
                                    ELSE browserOpens
    /\ intervalMs' = r.interval * 1000
    /\ sigintHandler' = TRUE
    /\ pc' = "sleeping"
    /\ outcome' = "pending"
    /\ UNCHANGED exitCode

CodeRequestRejectedProceeds(r) == CodeIssued(r)

\* !codeRes.ok
CodeRequestRejected(r) ==
    /\ output' = Say(<< Json("error", ErrorFields) >>,
                     << Text("Failed to initiate registration"),
                        Text("Try again later") >>)
    /\ Exit(1, "failed")
    /\ UNCHANGED << codeVars, intervalMs, sigintHandler, browserOpens >>

CodeResponse(r) ==
    /\ pc = "awaitCode"
    /\ codeRes' = r
    /\ IF r.kind = "throw" THEN CodeRequestThrows
       ELSE IF ~r.ok THEN CodeRequestRejected(r)
       ELSE CodeIssued(r)
    /\ UNCHANGED << otherVars, inputVars, credFile, configBaseUrl, client, aborted, calls,
                    responses, credWrites, elapsedMs >>

(* the timed wait is over: the next token-exchange call (register.ts 179-190) *)

PollWakeNoWait ==
    /\ pc = "sleeping"
    /\ ~aborted
    /\ Len(responses) < MaxPolls
    /\ calls' = Append(calls,
           Request(client, "POST", "/api/device/token", device_code, GRANT_TYPE))
    /\ pc' = "awaitToken"
    /\ UNCHANGED << otherVars, inputVars, sessionVars, credFile, outcome, exitCode,
                    configBaseUrl, client, intervalMs, aborted, sigintHandler,
                    responses, credWrites, browserOpens, output, elapsedMs >>

PollWakeOverlapping ==
    /\ pc \in {"sleeping", "awaitToken"}
    /\ ~aborted
    /\ Len(responses) < MaxPolls
    /\ elapsedMs' = elapsedMs + intervalMs
    /\ calls' = Append(calls,
           Request(client, "POST", "/api/device/token", device_code, GRANT_TYPE))
    /\ pc' = "awaitToken"
    /\ UNCHANGED << otherVars, inputVars, sessionVars, credFile, outcome, exitCode,
                    configBaseUrl, client, intervalMs, aborted, sigintHandler,
                    responses, credWrites, browserOpens, output >>

PollWake ==
    /\ pc = "sleeping"
    /\ ~aborted
    /\ Len(responses) < MaxPolls
    /\ elapsedMs' = elapsedMs + intervalMs
    /\ calls' = Append(calls,
           Request(client, "POST", "/api/device/token", device_code, GRANT_TYPE))
    /\ pc' = "awaitToken"
    /\ UNCHANGED << otherVars, inputVars, sessionVars, credFile, outcome, exitCode,
                    configBaseUrl, client, intervalMs, aborted, sigintHandler,
                    responses, credWrites, browserOpens, output >>

(* the token-exchange call has failed or come back (register.ts 191-286) *)

\* continue: back to the loop test and the next sleep(intervalMs)
Continue == pc' = "sleeping" /\ UNCHANGED << outcome, exitCode >>

PollNetworkErrorFatal ==
    /\ output' = Say(<< Json("error", ErrorFields) >>, << Text("Cannot reach API") >>)
    /\ Exit(1, "failed")
    /\ UNCHANGED << intervalMs, credFile, credWrites, sigintHandler >>

\* catch: the request threw
PollNetworkError ==
    /\ output' = Say(<< >>, << Progress("!") >>)
    /\ Continue
    /\ UNCHANGED << intervalMs, credFile, credWrites, sigintHandler >>

PollApprovedNoReturn(r) ==
    LET creds == [api_key |-> r.api_key, account_id |-> r.account_id,
                  base_url |-> configBaseUrl]
    IN  /\ credWrites' = Append(credWrites, creds)
        /\ credFile' = saveCredentials(creds)
        /\ output' = Say(<< Json("authorized", {"status", "api_key", "account_id"}) >>,
                         << Text("Authorized!") >>)
        /\ Continue
        /\ UNCHANGED << intervalMs, sigintHandler >>

PollApprovedKeepsListener(r) ==
    LET creds == [api_key |-> r.api_key, account_id |-> r.account_id,
                  base_url |-> configBaseUrl]
    IN  /\ credWrites' = Append(credWrites, creds)
        /\ credFile' = saveCredentials(creds)
        /\ output' = Say(<< Json("authorized", {"status", "api_key", "account_id"}) >>,
                         << Text(""), Text("Authorized!") >>)
        /\ pc' = "returned"
        /\ exitCode' = 0
        /\ outcome' = "authorized"
        /\ UNCHANGED << intervalMs, sigintHandler >>

\* tokenRes.ok: save, report, return (finally: removeListener)
PollApproved(r) ==
    LET creds == [api_key |-> r.api_key, account_id |-> r.account_id,
                  base_url |-> configBaseUrl]
    IN  /\ credWrites' = Append(credWrites, creds)
        /\ credFile' = saveCredentials(creds)
        /\ output' = Say(<< Json("authorized", {"status", "api_key", "account_id"}) >>,
                         << Text(""), Text("Authorized!"), Text("API Key"),
                            Text("Account"), Text("Saved to credentials.json"),
                            Text("Next steps") >>)
        /\ sigintHandler' = FALSE
        /\ pc' = "returned"
        /\ exitCode' = 0
        /\ outcome' = "authorized"
        /\ UNCHANGED intervalMs

PollPendingFatal ==
    /\ output' = Say(<< Json("error", ErrorFields) >>, << Text("Unexpected response") >>)
    /\ Exit(1, "failed")
    /\ UNCHANGED << intervalMs, credFile, credWrites, sigintHandler >>

PollPendingPrintsInJson ==
    /\ output' = Append(output, Progress("."))
    /\ Continue
    /\ UNCHANGED << intervalMs, credFile, credWrites, sigintHandler >>

\* 428 authorization_pending
PollPending ==
    /\ output' = Say(<< >>, << Progress(".") >>)
    /\ Continue
    /\ UNCHANGED << intervalMs, credFile, credWrites, sigintHandler >>

PollSlowDownNotCumulative ==
    /\ intervalMs' = serverInterval * 1000 + SlowDownIncrementMs
    /\ Continue
    /\ UNCHANGED << output, credFile, credWrites, sigintHandler >>

\* 429 slow_down
PollSlowDown ==
    /\ intervalMs' = intervalMs + SlowDownIncrementMs
    /\ Continue
    /\ UNCHANGED << output, credFile, credWrites, sigintHandler >>

PollExpiredContinues ==
    /\ output' = Say(<< Json("error", {"error", "resolution"}) >>,
                     << Text(""), Text("Device code expired") >>)
    /\ Continue
    /\ UNCHANGED << intervalMs, credFile, credWrites, sigintHandler >>

\* expired_token
PollExpired ==
    /\ output' = Say(<< Json("error", {"error", "resolution"}) >>,
                     << Text(""), Text("Device code expired") >>)
    /\ Exit(1, "expired")
    /\ UNCHANGED << intervalMs, credFile, credWrites, sigintHandler >>

PollDeniedKeepsPolling ==
    /\ output' = Say(<< Json("error", {"error", "resolution"}) >>,
                     << Text(""), Text("Authorization denied") >>)
    /\ pc' = "sleeping"
    /\ outcome' = "denied"
    /\ UNCHANGED << exitCode, intervalMs, credFile, credWrites, sigintHandler >>

\* access_denied
PollDenied ==
    /\ output' = Say(<< Json("error", {"error", "resolution"}) >>,
                     << Text(""), Text("Authorization denied") >>)
    /\ Exit(1, "denied")
    /\ UNCHANGED << intervalMs, credFile, credWrites, sigintHandler >>

PollUnknownContinues(r) ==
    /\ output' = Say(<< Json("error", ErrorFields) >>,
                     << Text(""), Text("Unexpected response"), Text("Fix: Try again") >>)
    /\ Continue
    /\ UNCHANGED << intervalMs, credFile, credWrites, sigintHandler >>

PollUnknownReturns(r) ==
    /\ output' = Say(<< Json("error", ErrorFields) >>,
                     << Text(""), Text("Unexpected response"), Text("Fix: Try again") >>)
    /\ pc' = "returned"
    /\ exitCode' = 0
    /\ outcome' = "failed"
    /\ sigintHandler' = FALSE
    /\ UNCHANGED << intervalMs, credFile, credWrites >>

\* anything else
PollUnknown(r) ==
    /\ output' = Say(<< Json("error", ErrorFields) >>,
                     << Text(""), Text("Unexpected response"), Text("Fix: Try again") >>)
    /\ Exit(1, "failed")
    /\ UNCHANGED << intervalMs, credFile, credWrites, sigintHandler >>

TokenResponse(r) ==
    /\ pc = "awaitToken"
    /\ responses' = Append(responses, r)
    /\ IF r.kind = "throw" THEN PollNetworkError
       ELSE IF r.ok THEN PollApproved(r)
       ELSE IF r.status = 428 /\ r.error = "authorization_pending" THEN PollPending
       ELSE IF r.status = 429 /\ r.error = "slow_down" THEN PollSlowDown
       ELSE IF r.error = "expired_token" THEN PollExpired
       ELSE IF r.error = "access_denied" THEN PollDenied
       ELSE PollUnknown(r)
    /\ UNCHANGED << otherVars, inputVars, sessionVars, configBaseUrl, client, aborted, calls,
                    browserOpens, elapsedMs >>

(* SIGINT *)

onAbortExitsOne ==
    /\ aborted' = TRUE
    /\ output' = Say(<< >>, << Text(""), Text("Registration cancelled.") >>)
    /\ Exit(1, "aborted")

\* the handler register installs (register.ts 168-175)
onAbort ==
    /\ aborted' = TRUE
    /\ output' = Say(<< >>, << Text(""), Text("Registration cancelled.") >>)
    /\ Exit(130, "aborted")

\* SIGINT while onAbort is installed and register is suspended
Sigint ==
    /\ pc \in {"sleeping", "awaitToken"}
    /\ sigintHandler
    /\ onAbort
    /\ UNCHANGED << otherVars, inputVars, sessionVars, credFile, configBaseUrl, client,
                    intervalMs, sigintHandler, calls, responses, credWrites,
                    browserOpens, elapsedMs >>

\* SIGINT while no handler is installed: the runtime's default, the process
\* is killed by the signal
SigintDefault ==
    /\ pc = "awaitCode"
    /\ ~sigintHandler
    /\ pc' = "killed"
    /\ UNCHANGED << otherVars, inputVars, sessionVars, credFile, outcome, exitCode,
                    configBaseUrl, client, intervalMs, aborted, sigintHandler,
                    calls, responses, credWrites, browserOpens, output,
                    elapsedMs >>

Next ==
    \/ Register
    \/ \E r \in CodeResponses : CodeResponse(r)
    \/ PollWake
    \/ \E r \in TokenResponses : TokenResponse(r)
    \/ Sigint
    \/ SigintDefault

Spec == Init /\ [][Next]_vars

---------------------------------------------------------------------------
(* ApiClient.request, from the response on (src/unnamed/part_000 57-76) *)

\* v is truthy (of a string or undefined)
Truthy(v) == v # Undef /\ v # ""

\* the parsed bodies the commands read
Data(err, acct, agents) == [error |-> err, account_id |-> acct, agents |-> agents]

BodyEmptyObject == "{}"
BodyError == "{\"error\":\"unauthorized\"}"
BodyAccount ==
    "{\"account_id\":\"ACCT-1\",\"balance\":5,\"agents\":[{\"id\":\"a1\"}],\"receipts\":[]}"
BodyHtml == "<html>Bad Gateway</html>"

\* the response bodies of the model: three JSON texts, a non-JSON text, and
\* the empty body
Bodies == {BodyEmptyObject, BodyError, BodyAccount, BodyHtml, ""}

\* response.json() resolves for a body that is a JSON text and rejects with
\* a SyntaxError for any other, the empty body included
ParsesAsJson(body) == body \in {BodyEmptyObject, BodyError, BodyAccount}

JsonValue(body) ==
    CASE body = BodyEmptyObject -> Data(Undef, Undef, 0)
      [] body = BodyError -> Data("unauthorized", Undef, 0)
      [] body = BodyAccount -> Data(Undef, "ACCT-1", 1)

Statuses == {200, 204, 401, 404, 500, 502}

statusText(status) ==
    CASE status = 200 -> "OK"
      [] status = 204 -> "No Content"
      [] status = 401 -> "Unauthorized"
      [] status = 404 -> "Not Found"
      [] status = 500 -> "Internal Server Error"
      [] status = 502 -> "Bad Gateway"

\* fetch rejected: no HTTP response
FetchRejects == [kind |-> "reject"]

\* fetch resolved with an HTTP response; json: its content-type includes
\* application/json
RawResponse(status, json, body) ==
    [kind |-> "http", status |-> status, json |-> json, body |-> body]

RawResponses ==
    {FetchRejects}
    \cup {RawResponse(st, j, b) : st \in Statuses, j \in BOOLEAN, b \in Bodies}

responseOk(status) == status >= 200 /\ status <= 299

Result(status, data) ==
    [kind |-> "result", ok |-> responseOk(status), status |-> status, data |-> data]

\* what request returns ("result") or throws (NetErr), given what fetch did
requestResult(raw) ==
    IF raw.kind = "reject" THEN NetErr
    ELSE IF raw.json
         THEN IF ParsesAsJson(raw.body)
              THEN Result(raw.status, JsonValue(raw.body))
              ELSE NetErr
         ELSE Result(raw.status,
                     Data(IF raw.body # "" THEN raw.body ELSE statusText(raw.status),
                          Undef, 0))

\* nothing but the function's argument is drawn
FixedInputs ==
    /\ args = << >>
    /\ env = [PAYWALLS_API_KEY |-> Undef, PAYWALLS_BASE_URL |-> Undef,
              PAYWALLS_ACCOUNT_ID |-> Undef]
    /\ headlessEnv = FALSE
    /\ credFile = NoCredFile

ApiInit ==
    /\ FixedInputs
    /\ pc = "api:start"
    /\ RegisterIdle
    /\ checks = << >>
    /\ accountId = Undef
    /\ report = NoReport
    /\ fnIn \in RawResponses
    /\ fnOut = NoResponse

\* fetch has settled: request parses the response and returns, or throws
ApiRequest ==
    /\ pc = "api:start"
    /\ fnOut' = requestResult(fnIn)
    /\ pc' = "api:done"
    /\ UNCHANGED << inputVars, sessionVars, credFile, outcome, exitCode,
                    configBaseUrl, client, intervalMs, aborted, sigintHandler,
                    calls, responses, credWrites, browserOpens, output,
                    elapsedMs, checks, accountId, report, fnIn >>

ApiNext == ApiRequest

SpecApi == ApiInit /\ [][ApiNext]_vars

---------------------------------------------------------------------------
(* loadConfig as a function of its layers (src/unnamed/part_000 137-160) *)

ConfigOverrides ==
    [ apiKey : {Undef, "OVR-KEY"},
      baseUrl : {Undef, "https://ovr.example"},
      accountId : {Undef} ]

ConfigEnvs ==
    [ PAYWALLS_API_KEY : {Undef, "", "ENV-KEY"},
      PAYWALLS_BASE_URL : {Undef, "https://env.example"},
      PAYWALLS_ACCOUNT_ID : {Undef, "ENV-ACCT"} ]

\* the .env file of the current directory (all Undef: none, or none of the
\* three variables in it)
DotEnvs ==
    [ PAYWALLS_API_KEY : {Undef, "DOTENV-KEY"},
      PAYWALLS_BASE_URL : {Undef},
      PAYWALLS_ACCOUNT_ID : {Undef} ]

ConfigInit ==
    /\ args = << >>
    /\ headlessEnv = FALSE
    /\ env \in ConfigEnvs
    /\ credFile \in CredFiles
    /\ pc = "config:start"
    /\ RegisterIdle
    /\ checks = << >>
    /\ accountId = Undef
    /\ report = NoReport
    /\ fnIn \in [overrides : ConfigOverrides, dotEnv : DotEnvs]
    /\ fnOut = NoResponse

\* loadConfig(overrides): the .env file is not among what it reads
ConfigLoad ==
    /\ pc = "config:start"
    /\ fnOut' = loadConfig(fnIn.overrides, env, credFile)
    /\ pc' = "config:done"
    /\ UNCHANGED << inputVars, sessionVars, credFile, outcome, exitCode,
                    configBaseUrl, client, intervalMs, aborted, sigintHandler,
                    calls, responses, credWrites, browserOpens, output,
                    elapsedMs, checks, accountId, report, fnIn >>

ConfigNext == ConfigLoad

SpecConfig == ConfigInit /\ [][ConfigNext]_vars

---------------------------------------------------------------------------
(* doctor (src/src/cli/doctor.ts) *)

\* the command lines doctor starts from
DoctorArgLists ==
    { << >>,
      << Arg("json") >>,
      << ArgEq("api-key", "FLAG-KEY") >>,
      << Arg("json"), ArgEq("base-url", "http://localhost:3000") >> }

\* what fetch may come back with, for each of doctor's four requests
DoctorResponses ==
    { FetchRejects,
      RawResponse(200, TRUE, BodyAccount),
      RawResponse(200, TRUE, BodyEmptyObject),
      RawResponse(401, TRUE, BodyError),
      RawResponse(404, TRUE, BodyError),
      RawResponse(502, FALSE, BodyHtml),
      RawResponse(502, TRUE, BodyHtml),
      RawResponse(204, TRUE, "") }

CheckNames == << "configuration", "connectivity", "authentication", "wallet", "agent" >>

\* CheckResult; account_id is details.account_id
Pass(name, acct) == [name |-> name, status |-> "pass", account_id |-> acct]
Fail(name) == [name |-> name, status |-> "fail", account_id |-> Undef]

IsPass(c) == c.status = "pass"

PassedCountsAll(chk) == Len(chk)

\* checks.filter(c => c.status === 'pass').length
Passed(chk) == Len(SelectSeq(chk, IsPass))

checkConfiguration ==
    IF ~Truthy(loadConfig(NoOverrides, env, credFile).apiKey)
    THEN Fail("configuration")
    ELSE Pass("configuration", Undef)

\* const config = loadConfig({ apiKey: --api-key, baseUrl: --base-url })
doctorConfig ==
    LET fl == parseFlags(args) IN
    loadConfig([apiKey |-> IF IsString(fl["api-key"]) THEN fl["api-key"] ELSE Undef,
                baseUrl |-> IF IsString(fl["base-url"]) THEN fl["base-url"] ELSE Undef,
                accountId |-> Undef],
               env, credFile)

\* new ApiClient({ apiKey: config.apiKey || undefined, baseUrl: config.baseUrl })
doctorClient ==
    loadConfig([apiKey |-> IF Truthy(doctorConfig.apiKey) THEN doctorConfig.apiKey
                           ELSE Undef,
                baseUrl |-> doctorConfig.baseUrl,
                accountId |-> Undef],
               env, credFile)

DoctorInit ==
    /\ args \in DoctorArgLists
    /\ env \in ConfigEnvs
    /\ headlessEnv = FALSE
    /\ credFile \in CredFiles
    /\ pc = "doctor:start"
    /\ RegisterIdle
    /\ OtherIdle

\* what a step of doctor leaves alone
doctorFrame ==
    << inputVars, sessionVars, credFile, configBaseUrl, intervalMs, aborted,
       sigintHandler, credWrites, browserOpens, elapsedMs, outcome, fnIn, fnOut >>

\* flags, config, client, check 1, and the request of check 2
Doctor ==
    /\ pc = "doctor:start"
    /\ client' = doctorClient
    /\ checks' = << checkConfiguration >>
    /\ calls' = Append(calls, Request(doctorClient, "GET", "/api/health", Undef, Undef))
    /\ pc' = "doctor:health"
    /\ UNCHANGED << doctorFrame, responses, accountId, report, output, exitCode >>

\* a check awaits client.get(path)
Await(at, chk, acct, path) ==
    /\ pc' = at
    /\ checks' = chk
    /\ accountId' = acct
    /\ calls' = Append(calls, Request(client, "GET", path, Undef, Undef))
    /\ UNCHANGED << report, output, exitCode >>

\* a rejection nobody catches: the promise of doctor rejects
Rejects ==
    /\ pc' = "rejected"
    /\ UNCHANGED << checks, accountId, calls, report, output, exitCode >>

\* passed, total, the report, the exit status (doctor.ts 293-331)
Finish(chk, acct) ==
    LET passed == Passed(chk)
        total == Len(chk)
    IN  /\ checks' = chk
        /\ accountId' = acct
        /\ report' = [passed |-> passed, total |-> total]
        /\ output' = Say(<< Json("report", {"checks", "passed", "total"}) >>,
                         << Text("Paywalls Developer Environment Check"),
                            Text("checks passed.") >>)
        /\ IF passed < total
           THEN pc' = "exited" /\ exitCode' = 1
           ELSE pc' = "returned" /\ exitCode' = 0
        /\ UNCHANGED calls

\* checkAgent up to its request
StartAgent(chk, acct) ==
    IF ~Truthy(acct)
    THEN Finish(Append(chk, Fail("agent")), acct)
    ELSE Await("doctor:agents", chk, acct, "/api/account/" \o acct \o "/agents")

\* checkWallet up to its request
StartWallet(chk, acct) ==
    IF ~Truthy(acct)
    THEN StartAgent(Append(chk, Fail("wallet")), acct)
    ELSE Await("doctor:wallet", chk, acct, "/api/wallet/" \o acct \o "/balance")

\* checkAuthentication up to its request
StartAuth(chk, acct) ==
    IF ~Truthy(client.apiKey)
    THEN StartWallet(Append(chk, Fail("authentication")), acct)
    ELSE Await("doctor:me", chk, acct, "/api/me")

\* checkConnectivity from its response on: any result passes, any throw is
\* caught and fails; then let accountId = config.accountId and check 3
HealthResponse(raw) ==
    /\ pc = "doctor:health"
    /\ responses' = Append(responses, raw)
    /\ LET res == requestResult(raw)
           connCheck == IF res.kind = "throw" THEN Fail("connectivity")
                        ELSE Pass("connectivity", Undef)
       IN  StartAuth(Append(checks, connCheck), doctorConfig.accountId)
    /\ UNCHANGED << doctorFrame, client >>

MeResponseKeepsConfigured(raw) ==
    /\ pc = "doctor:me"
    /\ responses' = Append(responses, raw)
    /\ LET res == requestResult(raw) IN
       IF res.kind = "throw" THEN Rejects
       ELSE LET authCheck == IF ~res.ok THEN Fail("authentication")
                             ELSE Pass("authentication", res.data.account_id)
            IN  StartWallet(Append(checks, authCheck), accountId)
    /\ UNCHANGED << doctorFrame, client >>

\* checkAuthentication from its response on, then check 4
MeResponse(raw) ==
    /\ pc = "doctor:me"
    /\ responses' = Append(responses, raw)
    /\ LET res == requestResult(raw) IN
       IF res.kind = "throw" THEN Rejects
       ELSE LET authCheck == IF ~res.ok THEN Fail("authentication")
                             ELSE Pass("authentication", res.data.account_id)
                acct == IF IsPass(authCheck) /\ Truthy(authCheck.account_id)
                        THEN authCheck.account_id ELSE accountId
            IN  StartWallet(Append(checks, authCheck), acct)
    /\ UNCHANGED << doctorFrame, client >>

\* checkWallet from its response on, then check 5
WalletResponse(raw) ==
    /\ pc = "doctor:wallet"
    /\ responses' = Append(responses, raw)
    /\ LET res == requestResult(raw) IN
       IF res.kind = "throw" THEN Rejects
       ELSE LET walletCheck == IF ~res.ok THEN Fail("wallet")
                               ELSE Pass("wallet", Undef)
            IN  StartAgent(Append(checks, walletCheck), accountId)
    /\ UNCHANGED << doctorFrame, client >>

\* checkAgent from its response on, then the report
AgentsResponse(raw) ==
    /\ pc = "doctor:agents"
    /\ responses' = Append(responses, raw)
    /\ LET res == requestResult(raw) IN
       IF res.kind = "throw" THEN Rejects
       ELSE LET agentCheck == IF ~res.ok THEN Fail("agent")
                              ELSE IF res.data.agents = 0 THEN Fail("agent")
                              ELSE Pass("agent", Undef)
            IN  Finish(Append(checks, agentCheck), accountId)
    /\ UNCHANGED << doctorFrame, client >>

DoctorNext ==
    \/ Doctor
    \/ \E raw \in DoctorResponses : HealthResponse(raw)
    \/ \E raw \in DoctorResponses : MeResponse(raw)
    \/ \E raw \in DoctorResponses : WalletResponse(raw)
    \/ \E raw \in DoctorResponses : AgentsResponse(raw)

SpecDoctor == DoctorInit /\ [][DoctorNext]_vars

---------------------------------------------------------------------------
(* isHeadless and openBrowser as functions (src/src/cli/util.ts 74-126) *)

Urls == { "https://example.com",
          "https://example.com/verify?code=ABC",
          "http://localhost:3000/device?user_code=WDJB-WNRH" }

Platforms == {"darwin", "linux", "win32", "freebsd"}

\* what isHeadless looks at
Terminals ==
    [ isTTY : BOOLEAN,
      CI : {Undef, "true"},
      CODESPACES : {Undef, "true"},
      SSH_CONNECTION : {Undef, "10.0.0.1 22"} ]

BrowserCalls ==
    [ url : Urls, incognito : BOOLEAN, platform : Platforms, terminal : Terminals ]

isHeadless(t) ==
    \/ ~t.isTTY
    \/ t.CI # Undef
    \/ t.CODESPACES # Undef
    \/ t.SSH_CONNECTION # Undef

\* JSON.stringify(url), of a URL without quotes or backslashes
Quoted(url) == "\"" \o url \o "\""

\* what a call of openBrowser did: the commands handed to exec (each a
\* sequence of words) and the lines printed
Did(execs, printed) == [execs |-> execs, printed |-> printed]

openBrowserCall(c) ==
    LET q == Quoted(c.url) IN
    IF isHeadless(c.terminal) THEN Did(<< >>, << >>)
    ELSE IF c.incognito /\ c.platform = "darwin"
         THEN Did(<< << "open", "-na", "\"Google Chrome\"", "--args", "--incognito", q,
                        "2>/dev/null", "||",
                        "open", "-a", "Firefox", "--args", "-private-window", q,
                        "2>/dev/null", "||",
                        "open", q >> >>, << >>)
    ELSE IF c.incognito /\ c.platform = "linux"
         THEN Did(<< << "google-chrome", "--incognito", q, "2>/dev/null", "||",
                        "firefox", "-private-window", q, "2>/dev/null", "||",
                        "xdg-open", q >> >>, << >>)
    ELSE IF c.incognito /\ c.platform = "win32"
         THEN Did(<< << "start", "chrome", "--incognito", q >> >>, << >>)
    ELSE LET cmd == IF c.platform = "darwin" THEN "open"
                    ELSE IF c.platform = "win32" THEN "start"
                    ELSE "xdg-open"
         IN  Did(<< << cmd, q >> >>, << >>)

BrowserInit ==
    /\ FixedInputs
    /\ pc = "browser:start"
    /\ RegisterIdle
    /\ checks = << >>
    /\ accountId = Undef
    /\ report = NoReport
    /\ fnIn \in BrowserCalls
    /\ fnOut = NoResponse

BrowserOpen ==
    /\ pc = "browser:start"
    /\ fnOut' = openBrowserCall(fnIn)
    /\ pc' = "browser:done"
    /\ UNCHANGED << inputVars, sessionVars, credFile, outcome, exitCode,
                    configBaseUrl, client, intervalMs, aborted, sigintHandler,
                    calls, responses, credWrites, browserOpens, output,
                    elapsedMs, checks, accountId, report, fnIn >>

BrowserNext == BrowserOpen

SpecBrowser == BrowserInit /\ [][BrowserNext]_vars

---------------------------------------------------------------------------
(* balance (src/unnamed/part_001) and receipts (src/unnamed/part_003) *)

\* the texts given to --limit and --offset
NumberTexts ==
    { "5", "0", "-3", "999", "100", "1", "abc", "", "12abc", "3.7", "-0",
      " 7", "+4", "99999999999999999999" }

\* the characters of a text
Spelling(text) ==
    CASE text = "5" -> << "5" >>
      [] text = "0" -> << "0" >>
      [] text = "-3" -> << "-", "3" >>
      [] text = "999" -> << "9", "9", "9" >>
      [] text = "100" -> << "1", "0", "0" >>
      [] text = "1" -> << "1" >>
      [] text = "10" -> << "1", "0" >>
      [] text = "abc" -> << "a", "b", "c" >>
      [] text = "" -> << >>
      [] text = "12abc" -> << "1", "2", "a", "b", "c" >>
      [] text = "3.7" -> << "3", ".", "7" >>
      [] text = "-0" -> << "-", "0" >>
      [] text = " 7" -> << " ", "7" >>
      [] text = "+4" -> << "+", "4" >>
      [] text = "99999999999999999999" -> [i \in 1..20 |-> "9"]

Digits == << "0", "1", "2", "3", "4", "5", "6", "7", "8", "9" >>

IsDigit(ch) == \E d \in DOMAIN Digits : Digits[d] = ch

DigitValue(ch) == (CHOOSE d \in DOMAIN Digits : Digits[d] = ch) - 1

NaN == [nan |-> TRUE, n |-> 0]
Num(n) == [nan |-> FALSE, n |-> n]

\* the value of the digits of cs from position i on, after acc
RECURSIVE DigitsFrom(_, _, _)
DigitsFrom(cs, i, acc) ==
    IF i > Len(cs) \/ ~IsDigit(cs[i]) THEN acc
    ELSE LET next == acc * 10 + DigitValue(cs[i])
         IN  DigitsFrom(cs, i + 1, IF next > MaxNumber THEN MaxNumber ELSE next)

RECURSIVE SkipSpaces(_, _)
SkipSpaces(cs, i) ==
    IF i <= Len(cs) /\ cs[i] = " " THEN SkipSpaces(cs, i + 1) ELSE i

\* parseInt(text, 10): leading blanks, an optional sign, the longest run of
\* digits; NaN when there is no digit there
parseInt(text) ==
    LET cs == Spelling(text)
        i == SkipSpaces(cs, 1)
        signed == i <= Len(cs) /\ cs[i] \in {"-", "+"}
        j == IF signed THEN i + 1 ELSE i
    IN  IF j > Len(cs) \/ ~IsDigit(cs[j]) THEN NaN
        ELSE IF signed /\ cs[i] = "-" THEN Num(0 - DigitsFrom(cs, j, 0))
        ELSE Num(DigitsFrom(cs, j, 0))

\* x || d, of a number
OrElse(x, d) == IF x.nan \/ x.n = 0 THEN d ELSE x.n

Max(a, b) == IF a >= b THEN a ELSE b
Min(a, b) == IF a <= b THEN a ELSE b

\* const limit (part_003 212)
listLimit(v) ==
    IF IsString(v) THEN Min(Max(OrElse(parseInt(v), 10), 1), 100) ELSE 10

\* const offset (part_003 213)
listOffset(v) ==
    IF IsString(v) THEN Max(OrElse(parseInt(v), 0), 0) ELSE 0

BalanceArgLists == { << >>, << Arg("json") >> }

ReceiptsArgLists ==
    { << >>, << Arg("json") >>, << Bare("rcpt_1") >>,
      << Arg("json"), Bare("rcpt_1") >>, << Arg("limit") >>,
      << ArgEq("limit", "5"), ArgEq("offset", "10"), ArgEq("type", "debit"),
         ArgEq("domain", "example.com") >>,
      << ArgEq("type", "all") >> }
    \cup { << ArgEq("limit", t) >> : t \in NumberTexts }
    \cup { << Arg("json"), ArgEq("offset", t) >> : t \in NumberTexts }

\* what fetch may come back with, for each request of the two commands
WalletResponses ==
    { FetchRejects,
      RawResponse(200, TRUE, BodyAccount),
      RawResponse(200, TRUE, BodyEmptyObject),
      RawResponse(401, TRUE, BodyError),
      RawResponse(404, TRUE, BodyError),
      RawResponse(502, TRUE, BodyHtml) }

WalletInit ==
    /\ \/ pc = "balance:start" /\ args \in BalanceArgLists
       \/ pc = "receipts:start" /\ args \in ReceiptsArgLists
    /\ env \in ConfigEnvs
    /\ headlessEnv = FALSE
    /\ credFile \in CredFiles
    /\ RegisterIdle
    /\ OtherIdle

\* what a step of balance or receipts leaves alone
walletFrame ==
    << inputVars, sessionVars, credFile, configBaseUrl, intervalMs, aborted,
       sigintHandler, credWrites, browserOpens, elapsedMs, outcome, checks,
       report, fnIn, fnOut >>

\* the three-field error, then process.exit(1)
Fatal(summary) ==
    /\ output' = Say(<< Json("error", ErrorFields) >>,
                     << Text(summary), Text("Reason"), Text("Fix") >>)
    /\ pc' = "exited"
    /\ exitCode' = 1

\* a rejection nobody catches: the promise of the command rejects
Throws == pc' = "rejected" /\ UNCHANGED << output, exitCode >>

Get(cl, path) == Request(cl, "GET", path, Undef, Undef)

\* the body of a 2xx answer has the fields the command dereferences
HasFields(raw) == raw.json /\ raw.body = BodyAccount

\* args.find(a => !a.startsWith('--')), Undef when there is none
RECURSIVE FirstPositional(_)
FirstPositional(i) ==
    IF i > Len(args) THEN Undef
    ELSE IF ~args[i].dd THEN args[i].val
    ELSE FirstPositional(i + 1)

firstArg == FirstPositional(1)

balanceRequest(cl, acct) == Get(cl, "/api/wallet/" \o acct \o "/balance")

\* the request of showReceipt or of listReceipts
receiptsRequest(cl, acct) ==
    IF firstArg # Undef
    THEN Get(cl, "/api/wallet/" \o acct \o "/receipts/" \o firstArg)
    ELSE LET fl == parseFlags(args)
             r == Get(cl, "/api/wallet/" \o acct \o "/receipts")
         IN  [ method |-> r.method, base |-> r.base, path |-> r.path,
               auth |-> r.auth, device_code |-> r.device_code,
               grant_type |-> r.grant_type,
               limit |-> listLimit(fl["limit"]),
               offset |-> listOffset(fl["offset"]),
               type |-> IF IsString(fl["type"]) /\ fl["type"] # "all"
                        THEN fl["type"] ELSE Undef,
               domain |-> IF IsString(fl["domain"]) THEN fl["domain"] ELSE Undef ]

receiptsAt == IF firstArg # Undef THEN "receipts:show" ELSE "receipts:list"

\* the wallet request of a command, and where the command waits for it
walletRequest(cmd, cl, acct) ==
    IF cmd = "balance" THEN balanceRequest(cl, acct) ELSE receiptsRequest(cl, acct)

walletAt(cmd) == IF cmd = "balance" THEN "balance:wallet" ELSE receiptsAt

walletResolveAlways(config, cl, cmd) ==
    /\ client' = cl
    /\ accountId' = config.accountId
    /\ calls' = Append(calls, Get(cl, "/api/me"))
    /\ pc' = cmd \o ":me"
    /\ UNCHANGED << output, exitCode >>

\* from the key guard to the first request (part_001 43-88, part_003 96-137)
walletResolve(config, cl, cmd) ==
    IF ~Truthy(config.apiKey)
    THEN Fatal("Unable to authenticate.") /\ UNCHANGED << client, accountId, calls >>
    ELSE /\ client' = cl
         /\ accountId' = config.accountId
         /\ IF ~Truthy(config.accountId)
            THEN /\ calls' = Append(calls, Get(cl, "/api/me"))
                 /\ pc' = cmd \o ":me"
            ELSE /\ calls' = Append(calls, walletRequest(cmd, cl, config.accountId))
                 /\ pc' = walletAt(cmd)
         /\ UNCHANGED << output, exitCode >>

walletMeProceeds(raw, cmd) ==
    LET res == requestResult(raw) IN
    IF res.kind = "throw"
    THEN Throws /\ UNCHANGED << accountId, calls >>
    ELSE /\ accountId' = res.data.account_id
         /\ calls' = Append(calls, walletRequest(cmd, client, res.data.account_id))
         /\ pc' = walletAt(cmd)
         /\ UNCHANGED << output, exitCode >>

\* /api/me has failed or come back (part_001 66-88, part_003 117-136)
walletMe(raw, cmd) ==
    LET res == requestResult(raw) IN
    IF res.kind = "throw"
    THEN Throws /\ UNCHANGED << accountId, calls >>
    ELSE IF ~res.ok
    THEN Fatal("Unable to identify account.") /\ UNCHANGED << accountId, calls >>
    ELSE /\ accountId' = res.data.account_id
         /\ calls' = Append(calls, walletRequest(cmd, client, res.data.account_id))
         /\ pc' = walletAt(cmd)
         /\ UNCHANGED << output, exitCode >>

\* the wallet request has failed or come back; throwsOnOk: the code after
\* the status test dereferences a field the body does not have
walletDone(raw, summary, throwsOnOk, okJson, okText) ==
    LET res == requestResult(raw) IN
    IF res.kind = "throw" THEN Throws
    ELSE IF ~res.ok THEN Fatal(summary)
    ELSE IF throwsOnOk THEN Throws
    ELSE /\ output' = Say(okJson, okText)
         /\ pc' = "returned"
         /\ exitCode' = 0

Balance ==
    /\ pc = "balance:start"
    /\ walletResolve(loadConfig(NoOverrides, env, credFile),
                     loadConfig(NoOverrides, env, credFile),
                     "balance")
    /\ UNCHANGED << walletFrame, responses >>

BalanceMe(raw) ==
    /\ pc = "balance:me"
    /\ responses' = Append(responses, raw)
    /\ walletMe(raw, "balance")
    /\ UNCHANGED << walletFrame, client >>

\* part_001 90-144; millicents.toLocaleString() throws on a missing balance
BalanceWallet(raw) ==
    /\ pc = "balance:wallet"
    /\ responses' = Append(responses, raw)
    /\ walletDone(raw, "Unable to retrieve balance.",
                  ~jsonMode /\ ~HasFields(raw),
                  << Json("balance", {"account_id", "account_name", "balance",
                                      "balance_formatted", "currency"}) >>,
                  << Text("Balance"), Text("Account"), Text("Millicents"),
                     Text("Currency") >>)
    /\ UNCHANGED << walletFrame, client, accountId, calls >>

Receipts ==
    /\ pc = "receipts:start"
    /\ walletResolve(loadConfig(NoOverrides, env, credFile),
                     loadConfig(NoOverrides, env, credFile),
                     "receipts")
    /\ UNCHANGED << walletFrame, responses >>

ReceiptsMe(raw) ==
    /\ pc = "receipts:me"
    /\ responses' = Append(responses, raw)
    /\ walletMe(raw, "receipts")
    /\ UNCHANGED << walletFrame, client >>

\* showReceipt from its response on (part_003 152-201)
ReceiptsShow(raw) ==
    /\ pc = "receipts:show"
    /\ responses' = Append(responses, raw)
    /\ walletDone(raw, "Unable to retrieve receipt.", FALSE,
                  << Json("receipt", {"amount_formatted"}) >>,
                  << Text("Receipt"), Text("Type"), Text("Amount"), Text("Date") >>)
    /\ UNCHANGED << walletFrame, client, accountId, calls >>

\* listReceipts from its response on (part_003 226-301); items.map and
\* items.length throw on a missing receipts
ReceiptsList(raw) ==
    /\ pc = "receipts:list"
    /\ responses' = Append(responses, raw)
    /\ walletDone(raw, "Unable to retrieve receipts.", ~HasFields(raw),
                  << Json("receipts", {"receipts", "total", "limit", "offset"}) >>,
                  << Text("No receipts yet.") >>)
    /\ UNCHANGED << walletFrame, client, accountId, calls >>

WalletNext ==
    \/ Balance
    \/ \E raw \in WalletResponses : BalanceMe(raw)
    \/ \E raw \in WalletResponses : BalanceWallet(raw)
    \/ Receipts
    \/ \E raw \in WalletResponses : ReceiptsMe(raw)
    \/ \E raw \in WalletResponses : ReceiptsShow(raw)
    \/ \E raw \in WalletResponses : ReceiptsList(raw)

SpecWallet == WalletInit /\ [][WalletNext]_vars

---------------------------------------------------------------------------
(* Vocabulary of the properties *)

Last(q) == q[Len(q)]

TokenCalls == Cardinality({i \in DOMAIN calls : calls[i].path = "/api/device/token"})

IsSuccess(r) == r.kind = "http" /\ r.ok
IsPending(r) ==
    r.kind = "http" /\ ~r.ok /\ r.status = 428 /\ r.error = "authorization_pending"
IsNetErr(r) == r.kind = "throw"
HasError(r, code) == r.kind = "http" /\ ~r.ok /\ r.error = code

AllPending(q) == \A i \in DOMAIN q : IsPending(q[i])

PendingThenSuccess ==
    /\ responses # << >>
    /\ IsSuccess(Last(responses))
    /\ AllPending(SubSeq(responses, 1, Len(responses) - 1))

\* reports of the transition to Authorized
AuthorizedCount ==
    Cardinality({i \in DOMAIN output : output[i].tag \in {"authorized", "Authorized!"}})

SlowDownCount ==
    Cardinality({i \in DOMAIN responses :
                    responses[i].kind = "http" /\ responses[i].error = "slow_down"})

InPollingLoop == pc \in {"sleeping", "awaitToken"}

---------------------------------------------------------------------------
(* Properties of register *)

\* C1: if the token endpoint answers the first N polls with
\* authorization_pending (HTTP 428) and the next with success, register has
\* made exactly N+1 token-exchange calls and has reached Authorized exactly
\* once; and while it has received nothing but such pending answers it is
\* still awaiting approval (or was interrupted), with no Authorized reported.
C1_PendingThenSuccess ==
    /\ (responses # << >> /\ AllPending(responses)) =>
          /\ outcome \in {"pending", "aborted"}
          /\ AuthorizedCount = 0
          /\ TokenCalls \in {Len(responses), Len(responses) + 1}
    /\ PendingThenSuccess =>
          /\ TokenCalls = Len(responses)
          /\ outcome = "authorized"
          /\ pc = "returned"
          /\ AuthorizedCount = 1
          /\ Len(credWrites) = 1

C1_Witness ==
    /\ PendingThenSuccess
    /\ Len(responses) = 3
    /\ TokenCalls = 3
    /\ outcome = "authorized"

\* C2: whenever register waits before a poll, the wait is the server's
\* interval (in ms) plus 5000 ms for every slow_down received so far in the
\* session; nothing else changes it.
C2_IntervalIsCumulative ==
    pc = "sleeping" => intervalMs = serverInterval * 1000 + 5000 * SlowDownCount

C2_Witness ==
    /\ pc = "sleeping"
    /\ Len(responses) = 3
    /\ HasError(responses[1], "slow_down")
    /\ HasError(responses[2], "slow_down")
    /\ IsNetErr(responses[3])
    /\ intervalMs = serverInterval * 1000 + 10000

\* C3: a token-exchange call that fails at connection level leaves register
\* awaiting approval, with no exit, no error reported and no credentials
\* written; what register does next is to wait the current interval and
\* issue exactly one further token-exchange call (unless it is interrupted).
C3_NetworkErrorIsAbsorbed ==
    [][ /\ (pc = "awaitToken" /\ responses' # responses /\ IsNetErr(Last(responses')))
            => /\ pc' = "sleeping"
               /\ outcome' = "pending"
               /\ exitCode' = NoExit
               /\ TokenCalls' = TokenCalls
               /\ intervalMs' = intervalMs
               /\ credWrites' = credWrites
               /\ \A i \in (Len(output) + 1)..Len(output') :
                      output'[i].mode = "progress"
        /\ (pc = "sleeping" /\ responses # << >> /\ IsNetErr(Last(responses))
               /\ ~aborted')
            => /\ pc' = "awaitToken"
               /\ TokenCalls' = TokenCalls + 1
               /\ elapsedMs' = elapsedMs + intervalMs
               /\ outcome' = "pending"
      ]_vars

C3_Witness ==
    /\ pc = "awaitToken"
    /\ Len(responses) = 1
    /\ IsNetErr(responses[1])
    /\ TokenCalls = 2
    /\ outcome = "pending"

\* C4: once a poll has received a non-success response with error code
\* expired_token or access_denied, register has exited with status 1, the
\* outcome is Expired resp. Denied, that response is the last one (no
\* further token-exchange call was made) and no credentials were written.
C4_ExpiredOrDeniedIsFatal ==
    \A i \in DOMAIN responses :
        (HasError(responses[i], "expired_token")
            \/ HasError(responses[i], "access_denied")) =>
          /\ i = Len(responses)
          /\ TokenCalls = Len(responses)
          /\ pc = "exited"
          /\ exitCode = 1
          /\ outcome = IF HasError(responses[i], "expired_token")
                        THEN "expired" ELSE "denied"
          /\ credWrites = << >>

C4_Witness ==
    /\ Len(responses) = 2
    /\ HasError(responses[2], "expired_token")
    /\ pc = "exited"
    /\ exitCode = 1

\* credentials are configured: the API key the configuration resolves to
\* (environment first, then the credentials file) is not empty
CredentialsExist ==
    IF env.PAYWALLS_API_KEY # Undef
    THEN env.PAYWALLS_API_KEY # ""
    ELSE credFile.api_key # Undef /\ credFile.api_key # ""

ForceGiven == \E i \in DOMAIN args : args[i] = Arg("force")

\* C5: started with credentials configured and without --force, register
\* exits with status 1 in its first step, having made no network call and
\* written nothing to the credential store.
C5_GuardRefuses ==
    [][ (pc = "start" /\ CredentialsExist /\ ~ForceGiven)
          => /\ pc' = "exited"
             /\ exitCode' = 1
             /\ calls' = << >>
             /\ credWrites' = << >>
             /\ credFile' = credFile
      ]_vars

C5_Witness ==
    /\ outcome = "refused"
    /\ exitCode = 1
    /\ calls = << >>
    /\ credFile.api_key = "FILE-KEY"

\* C6: in every state of the polling loop the interrupt handler is
\* installed, and a run that was interrupted there has exited with status
\* 130 without any credential write.
C6_InterruptExits130 ==
    /\ InPollingLoop => sigintHandler
    /\ aborted => /\ pc = "exited"
                  /\ exitCode = 130
                  /\ outcome = "aborted"
                  /\ credWrites = << >>

C6_Witness ==
    /\ aborted
    /\ exitCode = 130
    /\ Len(responses) = 2
    /\ TokenCalls = 3

\* C7: the credential store is written at most once in a run, and only in
\* the step that takes register from awaiting approval to Authorized on a
\* success response; every other step leaves it as it was.
C7_SingleWriteOnAuthorized ==
    [][ /\ Len(credWrites') <= 1
        /\ (credWrites' # credWrites \/ credFile' # credFile)
            => /\ pc = "awaitToken"
               /\ outcome = "pending"
               /\ outcome' = "authorized"
               /\ IsSuccess(Last(responses'))
        /\ outcome' # "authorized" => credWrites' = << >>
      ]_vars

C7_Witness ==
    /\ Len(credWrites) = 1
    /\ outcome = "authorized"
    /\ credFile.api_key = "NEW-KEY"
    /\ Len(responses) = 3

\* the last --base-url=<url> on the command line, Undef when there is none
RECURSIVE BaseUrlOverride(_)
BaseUrlOverride(n) ==
    IF n = 0 THEN Undef
    ELSE IF args[n].dd /\ args[n].key = "base-url"
         THEN (IF args[n].eq THEN args[n].val ELSE Undef)
         ELSE BaseUrlOverride(n - 1)

\* C8: in the step that reaches Authorized, the record passed to the
\* credential store, and the record stored, hold the api_key and account_id
\* of the token response and, as base_url, the base URL every request of the
\* run was sent to: the --base-url override if given, else the configured
\* base URL (environment, then credentials file, then the default).
C8_SavedRecord ==
    [][ (outcome # "authorized" /\ outcome' = "authorized")
          => LET r == Last(responses')
                 w == Last(credWrites')
                 base == Coalesce(BaseUrlOverride(Len(args)),
                           Coalesce(env.PAYWALLS_BASE_URL,
                             Coalesce(credFile.base_url, DEFAULT_BASE_URL)))
             IN  /\ w = [api_key |-> r.api_key, account_id |-> r.account_id,
                         base_url |-> base]
                 /\ credFile' = w
                 /\ \A i \in DOMAIN calls : calls[i].base = base
      ]_vars

C8_Witness ==
    /\ outcome = "authorized"
    /\ credFile = [api_key |-> "NEW-KEY", account_id |-> "NEW-ACCT",
                   base_url |-> "http://localhost:3000"]
    /\ env.PAYWALLS_BASE_URL = "https://env.example"

\* C9: when the device-code request has failed at transport level or come
\* back with a non-success status, register has exited with status 1 as
\* Failed; the request was its only network call (no retry, no
\* token-exchange call), no browser was launched and nothing was written.
C9_CodeRequestFailureIsFatal ==
    (codeRes.kind = "throw" \/ (codeRes.kind = "http" /\ ~codeRes.ok)) =>
        /\ pc = "exited"
        /\ exitCode = 1
        /\ outcome = "failed"
        /\ Len(calls) = 1
        /\ TokenCalls = 0
        /\ browserOpens = 0
        /\ credWrites = << >>

C9_Witness ==
    /\ codeRes.kind = "http"
    /\ ~codeRes.ok
    /\ outcome = "failed"
    /\ exitCode = 1

\* C10: no token-exchange call is issued after the session's deadline
\* expiresAt, expires_in seconds after the device code was issued (so that
\* polling is bounded whatever the server answers).
C10_NoPollAfterExpiry ==
    pc = "awaitToken" => elapsedMs <= expires_in * 1000

\* the outcomes in which the device-authorization session (or the command
\* before it) has ended
TerminalOutcomes ==
    {"authorized", "expired", "denied", "failed", "aborted", "refused"}

\* register has terminated: by return or by process.exit
Terminated == pc \in {"returned", "exited"}

\* a listener exists only in a live process: process.exit ends the process
\* with the listeners it holds
HandlerRegistered == sigintHandler /\ ~Terminated

\* C11: the exit status of register is determined by its terminal outcome:
\* 0 exactly when the outcome is Authorized, 130 exactly when it is Aborted by
\* user interrupt, and 1 for every other termination (guard refusal,
\* code-issuance failure, Expired, Denied, Failed).
C11_ExitStatusByOutcome ==
    /\ Terminated =>
          /\ outcome \in TerminalOutcomes
          /\ exitCode = 0 <=> outcome = "authorized"
          /\ exitCode = 130 <=> outcome = "aborted"
          /\ outcome \in {"refused", "failed", "expired", "denied"} => exitCode = 1
          /\ exitCode \in {0, 1, 130}
    /\ ~Terminated => exitCode = NoExit

C11_Witness ==
    /\ Terminated
    /\ outcome = "failed"
    /\ exitCode = 1
    /\ responses # << >>
    /\ Last(responses).kind = "http"
    /\ Last(responses).status = 503

\* C12: the interrupt handler of register is registered only for the duration
\* of the polling loop: not while the device code is being requested, and not
\* once the loop has ended, with whatever outcome.
C12_HandlerScopedToLoop ==
    /\ HandlerRegistered => InPollingLoop
    /\ pc \in {"start", "awaitCode"} => ~sigintHandler
    /\ pc = "returned" => ~sigintHandler
    /\ InPollingLoop => sigintHandler

C12_Witness ==
    /\ pc = "returned"
    /\ outcome = "authorized"
    /\ ~sigintHandler
    /\ Len(responses) >= 2

\* C13: terminal outcomes are absorbing: once register has reached Authorized
\* or any other terminal outcome, it issues no further token-exchange call
\* for that device code and the outcome never changes.
C13_TerminalIsAbsorbing ==
    [][ (outcome \in TerminalOutcomes)
            => (outcome' = outcome /\ calls' = calls /\ pc' = pc) ]_vars

C13_Witness ==
    /\ outcome = "authorized"
    /\ TokenCalls = 2
    /\ pc = "returned"

\* C19: --json implies headless: when register is run with --json, with
\* --headless, or in a detected headless environment, no browser process is
\* launched.
C19_JsonImpliesHeadless ==
    (jsonMode \/ flags["headless"] = FlagTrue \/ headlessEnv) => browserOpens = 0

\* the structured error objects register has printed
ErrorObjects == {i \in DOMAIN output : output[i].mode = "json" /\ output[i].tag = "error"}

\* register has ended on a fatal path (not by an interrupt)
FatalPath == pc = "exited" /\ outcome \in {"refused", "failed", "expired", "denied"}

\* C20: on every fatal path of register in --json mode the flow emits one
\* structured error object that has all three fields error, reason and
\* resolution.
C20_ErrorObjectIsComplete ==
    (jsonMode /\ FatalPath) =>
        /\ Cardinality(ErrorObjects) = 1
        /\ \A i \in ErrorObjects : output[i].fields = ErrorFields

---------------------------------------------------------------------------
(* Properties of ApiClient and loadConfig *)

\* C17: ApiClient.get and ApiClient.post never raise for an HTTP response:
\* every HTTP response, whatever its status, content type and body, is
\* returned as a result { ok, status, data } with ok true iff the status is
\* 2xx.
C17_HttpResponseIsReturned ==
    (pc = "api:done" /\ fnIn.kind = "http") =>
        /\ fnOut.kind = "result"
        /\ fnOut.status = fnIn.status
        /\ fnOut.ok <=> (fnIn.status >= 200 /\ fnIn.status <= 299)

\* the value of the first of the five layers that defines it
Layered(override, environment, dotenv, file, default) ==
    Coalesce(override, Coalesce(environment, Coalesce(dotenv, Coalesce(file, default))))

\* C18: loadConfig resolves apiKey, baseUrl and accountId each as the value
\* of the first layer that defines it, in the order explicit override,
\* environment variable, .env file, credentials file, built-in default.
C18_LayeredResolution ==
    pc = "config:done" =>
        /\ fnOut.apiKey = Layered(fnIn.overrides.apiKey, env.PAYWALLS_API_KEY,
                                  fnIn.dotEnv.PAYWALLS_API_KEY, credFile.api_key, "")
        /\ fnOut.baseUrl = Layered(fnIn.overrides.baseUrl, env.PAYWALLS_BASE_URL,
                                   fnIn.dotEnv.PAYWALLS_BASE_URL, credFile.base_url,
                                   DEFAULT_BASE_URL)
        /\ fnOut.accountId = Layered(fnIn.overrides.accountId, env.PAYWALLS_ACCOUNT_ID,
                                     fnIn.dotEnv.PAYWALLS_ACCOUNT_ID,
                                     credFile.account_id, Undef)

---------------------------------------------------------------------------
(* Properties of doctor *)

\* doctor has ended: it returned, it called process.exit, or its promise
\* rejected
DoctorEnded == pc \in {"returned", "exited", "rejected"}

PassCount == Cardinality({i \in DOMAIN checks : checks[i].status = "pass"})

\* C14: doctor always runs all five checks and reports exactly five results
\* in the order configuration, connectivity, authentication, wallet, agent,
\* whatever the kind of failure of an earlier check.
C14_AllFiveChecksReported ==
    DoctorEnded =>
        /\ Len(checks) = 5
        /\ \A i \in 1..5 : checks[i].name = CheckNames[i]
        /\ report.total = 5
        /\ output # << >>

\* C15: doctor reports passed = the number of checks with status pass and
\* total = 5, and exits with status 1 if and only if passed < total, with
\* status 0 exactly when all five checks pass, in JSON and in human mode.
C15_ReportAndExitStatus ==
    /\ report # NoReport =>
          /\ report.passed = PassCount
          /\ report.total = 5
          /\ Len(checks) = 5
          /\ Len(output) >= 1
          /\ exitCode = 1 <=> report.passed < report.total
          /\ exitCode = 0 <=> report.passed = report.total
    /\ exitCode = 0 <=> (pc = "returned" /\ PassCount = 5)
    /\ exitCode = 1 <=> (pc = "exited" /\ PassCount < 5)
    /\ pc \in {"returned", "exited"} => report # NoReport

C15_Witness ==
    /\ pc = "exited"
    /\ jsonMode
    /\ report = [passed |-> 4, total |-> 5]
    /\ exitCode = 1
    /\ checks[5].status = "fail"

\* C16: the connectivity check passes for any HTTP response from
\* GET /api/health, whatever its status code, and fails only when the
\* request fails at connection level.
C16_ConnectivityByReachability ==
    Len(checks) >= 2 =>
        (checks[2].status = "pass" <=> responses[1].kind = "http")

---------------------------------------------------------------------------
(* Further properties of ApiClient and register *)

\* C21: every request sent by an ApiClient carries an Authorization: Bearer
\* <key> header if and only if the client's resolved API key is non-empty,
\* and the key it carries is that key.
C21_BearerIffKey ==
    \A i \in DOMAIN calls :
        /\ calls[i].auth # Undef <=> (client.apiKey # Undef /\ client.apiKey # "")
        /\ calls[i].auth # Undef => calls[i].auth = client.apiKey

C21_Witness ==
    /\ Len(calls) = 4
    /\ client.apiKey = "FLAG-KEY"
    /\ \A i \in DOMAIN calls : calls[i].auth = "FLAG-KEY"

C21_WitnessNoKey ==
    /\ Len(calls) = 1
    /\ client.apiKey = ""
    /\ calls[1].auth = Undef

\* the error code of a non-success token-exchange response is one of codes
CodedAs(r, codes) == r.kind = "http" /\ ~r.ok /\ r.error \in codes

\* C22: a non-success token-exchange response whose error code is
\* authorization_pending or slow_down is non-fatal, whatever HTTP status
\* accompanies the code: the flow stays in AwaitingApproval (unless it was
\* interrupted afterwards).
C22_PendingByErrorCode ==
    (responses # << >>
        /\ CodedAs(Last(responses), {"authorization_pending", "slow_down"}))
    => outcome \in {"pending", "aborted"}

C24_WaitBeforeEveryPoll ==
    [][ (TokenCalls' # TokenCalls)
            => (pc = "sleeping" /\ TokenCalls' = TokenCalls + 1
                /\ elapsedMs' = elapsedMs + intervalMs) ]_vars

C24_Witness ==
    /\ TokenCalls = 3
    /\ IsNetErr(responses[1])
    /\ HasError(responses[2], "slow_down") /\ responses[2].status = 429
    /\ serverInterval = 1
    /\ elapsedMs = 1000 + 1000 + 6000

\* requests sent and not yet settled
InFlight ==
    Len(calls) - (IF codeRes = NoResponse THEN 0 ELSE 1) - Len(responses)

\* C25: within one register invocation at most one network request is in
\* flight at any time: a token-exchange call is issued only after the
\* previous call has settled and after the device-code call has completed.
C25_OneRequestInFlight ==
    /\ InFlight \in {0, 1}
    /\ TokenCalls > 0 => codeRes # NoResponse
    /\ pc = "sleeping" => InFlight = 0

C25_Witness ==
    /\ pc = "awaitToken"
    /\ TokenCalls = 3
    /\ InFlight = 1

\* C26: cancellation of register is checked only between poll iterations: an
\* interrupt that arrives while a token-exchange request is in flight does
\* not abort it, and the flow ends as Aborted only once no request is in
\* flight.
C26_AbortOnlyBetweenIterations ==
    outcome = "aborted" => InFlight = 0

\* C27: the first network call of register is POST /api/device/code; every
\* later call is a POST /api/device/token that carries the device_code
\* returned by the first call and the device-code grant type; no
\* token-exchange call precedes a successful device-code response.
C27_CallOrder ==
    /\ calls # << >> =>
          (calls[1].method = "POST" /\ calls[1].path = "/api/device/code")
    /\ \A i \in DOMAIN calls : i > 1 =>
          /\ calls[i].method = "POST"
          /\ calls[i].path = "/api/device/token"
          /\ codeRes.kind = "http"
          /\ codeRes.ok
          /\ calls[i].device_code = codeRes.device_code
          /\ calls[i].device_code # Undef
          /\ calls[i].grant_type = "urn:ietf:params:oauth:grant-type:device_code"

C27_Witness ==
    /\ Len(calls) = 4
    /\ calls[4].device_code = "WDJB-WNRH"
    /\ codeRes.device_code = "WDJB-WNRH"

\* the --json flag as given on the command line
JsonGiven == \E i \in DOMAIN args : args[i] = Arg("json")

Tags(q) == [i \in DOMAIN q |-> q[i].tag]

\* C28: in --json mode a successful run emits exactly one "pending" record,
\* before the first token-exchange call, and exactly one "authorized"
\* record, once the credentials have been saved; every line it emits is a
\* JSON object.
C28_JsonRecords ==
    JsonGiven =>
        /\ \A i \in DOMAIN output : output[i].mode = "json"
        /\ TokenCalls >= 1 => (output # << >> /\ output[1].tag = "pending")
        /\ outcome = "authorized" =>
              /\ Tags(output) = << "pending", "authorized" >>
              /\ Len(credWrites) = 1
        /\ Len(output) = 2 /\ output[2].tag = "authorized" => Len(credWrites) = 1

C28_Witness ==
    /\ JsonGiven
    /\ outcome = "authorized"
    /\ Len(responses) = 3
    /\ IsPending(responses[1])
    /\ IsNetErr(responses[2])
    /\ Len(output) = 2

\* C29: register never clobbers a working configuration without --force: if
\* the credentials file holds a non-empty api_key and --force is not given,
\* register refuses to start, whatever the environment variables hold, so
\* that the file is never overwritten (stated of the file as long as register
\* has not written it).
C29_NoClobberWithoutForce ==
    (pc # "start" /\ ~ForceGiven
        /\ credFile.api_key # Undef /\ credFile.api_key # ""
        /\ credWrites = << >>)
    => (outcome = "refused" /\ calls = << >>)

\* C30: whenever register has reached Authorized, the credential record it
\* persisted has a non-empty api_key, for every 2xx response body of the
\* token endpoint.
C30_SavedKeyNonEmpty ==
    outcome = "authorized" =>
        /\ credFile.api_key # Undef
        /\ credFile.api_key # ""

---------------------------------------------------------------------------
(* Further properties of doctor *)

\* the account ID configured in the environment or the credentials file
ConfiguredAccount ==
    IF env.PAYWALLS_ACCOUNT_ID # Undef THEN env.PAYWALLS_ACCOUNT_ID
    ELSE credFile.account_id

\* the account the wallet and agent checks are to use, once check 3 is in
AccountToUse ==
    IF checks[3].status = "pass" /\ checks[3].account_id \notin {Undef, ""}
    THEN checks[3].account_id
    ELSE ConfiguredAccount

CallsTo(path) == {i \in DOMAIN calls : calls[i].path = path}

PathsCalled == {calls[i].path : i \in DOMAIN calls}

\* C31: in doctor the wallet and agent checks use the account_id returned
\* by /api/me when the authentication check passes, otherwise the configured
\* account ID; when neither is available both checks report fail without
\* issuing any network call.
C31_AccountResolution ==
    Len(checks) >= 3 =>
        IF AccountToUse \in {Undef, ""}
        THEN /\ PathsCalled \subseteq {"/api/health", "/api/me"}
             /\ Len(checks) = 5
             /\ checks[4] = [name |-> "wallet", status |-> "fail", account_id |-> Undef]
             /\ checks[5] = [name |-> "agent", status |-> "fail", account_id |-> Undef]
        ELSE /\ PathsCalled \subseteq
                    {"/api/health", "/api/me",
                     "/api/wallet/" \o AccountToUse \o "/balance",
                     "/api/account/" \o AccountToUse \o "/agents"}
             /\ Cardinality(CallsTo("/api/wallet/" \o AccountToUse \o "/balance")) = 1
             /\ Len(checks) = 5 =>
                   Cardinality(CallsTo("/api/account/" \o AccountToUse \o "/agents")) = 1

C31_Witness ==
    /\ Len(checks) = 5
    /\ credFile.account_id = "FILE-ACCT"
    /\ checks[3].status = "pass"
    /\ checks[3].account_id = "ACCT-1"
    /\ Cardinality(CallsTo("/api/wallet/ACCT-1/balance")) = 1
    /\ Cardinality(CallsTo("/api/account/ACCT-1/agents")) = 1

C31_WitnessConfigured ==
    /\ Len(checks) = 5
    /\ env.PAYWALLS_ACCOUNT_ID = "ENV-ACCT"
    /\ credFile.account_id = "FILE-ACCT"
    /\ checks[3].status = "fail"
    /\ Cardinality(CallsTo("/api/wallet/ENV-ACCT/balance")) = 1
    /\ Cardinality(CallsTo("/api/account/ENV-ACCT/agents")) = 1

C31_WitnessUnresolved ==
    /\ Len(checks) = 5
    /\ checks[3].status = "pass"
    /\ AccountToUse = Undef
    /\ Len(calls) = 2

\* C37: in doctor the configuration check and the other checks agree on the
\* API key: the configuration check passes if and only if the client of the
\* other four checks has a non-empty API key, also when the key comes from
\* --api-key.
C37_ConfigurationAgreesWithClient ==
    Len(checks) >= 1 =>
        (checks[1].status = "pass" <=> client.apiKey \notin {Undef, ""})

---------------------------------------------------------------------------
(* Further properties of register *)

\* the positions of a '--base-url <url>' pair on the command line
BaseUrlPairs ==
    {i \in DOMAIN args : /\ args[i] = Arg("base-url")
                         /\ i < Len(args)
                         /\ ~args[i + 1].dd}

\* the URL given with the base-URL flag, in either documented form
GivenBaseUrl ==
    IF BaseUrlPairs # {}
    THEN args[(CHOOSE i \in BaseUrlPairs : \A j \in BaseUrlPairs : j <= i) + 1].val
    ELSE BaseUrlOverride(Len(args))

\* C36: when register is invoked with '--base-url <url>' or with
\* '--base-url=<url>', every request of the flow is sent to <url> and <url>
\* is the base_url persisted on success.
C36_BaseUrlFlagIsUsed ==
    GivenBaseUrl # Undef =>
        /\ \A i \in DOMAIN calls : calls[i].base = GivenBaseUrl
        /\ \A i \in DOMAIN credWrites : credWrites[i].base_url = GivenBaseUrl

\* C38: the requests register sends (the device-code request and the
\* token-exchange polls) never carry an Authorization header, also when
\* register runs with --force while an API key is configured.
C38_NoAuthorizationHeader ==
    \A i \in DOMAIN calls : calls[i].auth = Undef

---------------------------------------------------------------------------
(* Properties of openBrowser *)

Words(cmd) == {cmd[i] : i \in DOMAIN cmd}

\* the context is headless: no terminal, or one of the three variables set
HeadlessContext ==
    \/ ~fnIn.terminal.isTTY
    \/ fnIn.terminal.CI = "true"
    \/ fnIn.terminal.CODESPACES = "true"
    \/ fnIn.terminal.SSH_CONNECTION = "10.0.0.1 22"

\* C35: in a headless context openBrowser spawns no browser process and
\* prints the URL instead; in an interactive context it spawns exactly one
\* process, whose command contains the URL.
C35_HeadlessPrintsUrl ==
    pc = "browser:done" =>
        IF HeadlessContext
        THEN /\ fnOut.execs = << >>
             /\ \E i \in DOMAIN fnOut.printed : fnOut.printed[i] = fnIn.url
        ELSE /\ Len(fnOut.execs) = 1
             /\ "\"" \o fnIn.url \o "\"" \in Words(fnOut.execs[1])

---------------------------------------------------------------------------
(* receipts: --limit and --offset *)

ListCalls == {i \in DOMAIN calls : "limit" \in DOMAIN calls[i]}

GivenLimit == parseFlags(args)["limit"]
GivenOffset == parseFlags(args)["offset"]

\* v between lo and hi
Clamped(v, lo, hi) == IF v < lo THEN lo ELSE IF v > hi THEN hi ELSE v

\* the parsed value of a flag, def when the flag is absent or not a number
ParsedOr(v, def) ==
    IF ~IsString(v) \/ parseInt(v).nan THEN def ELSE parseInt(v).n

\* C34 (range only): every list request carries a limit in 1..100 and an
\* offset >= 0
LimitOffsetInRange ==
    \A i \in ListCalls : calls[i].limit \in 1..100 /\ calls[i].offset >= 0

\* C34: for every value of --limit and --offset the list request carries a
\* limit in 1..100 and an offset >= 0; the limit is the parsed value clamped
\* to [1, 100], 10 when there is none, and the offset is the parsed value
\* clamped to >= 0, 0 when there is none
C34_LimitOffsetClamped ==
    \A i \in ListCalls :
        /\ calls[i].limit \in 1..100
        /\ calls[i].offset >= 0
        /\ calls[i].limit = Clamped(ParsedOr(GivenLimit, 10), 1, 100)
        /\ calls[i].offset = Clamped(ParsedOr(GivenOffset, 0), 0, MaxNumber)

---------------------------------------------------------------------------
(* balance and receipts: which account, which requests *)

\* the wallet requests of the two commands for an account
WalletPaths(acct) ==
    { "/api/wallet/" \o acct \o "/balance",
      "/api/wallet/" \o acct \o "/receipts" }
    \cup { "/api/wallet/" \o acct \o "/receipts/" \o a : a \in {firstArg} \ {Undef} }

AccountConfigured == ConfiguredAccount \notin {Undef, ""}

\* the account_id of the body of the n-th response
ReturnedAccount(n) ==
    IF responses[n].kind = "reject" \/ ~ParsesAsJson(responses[n].body) THEN Undef
    ELSE JsonValue(responses[n].body).account_id

\* C32: the requests of balance and of receipts start with GET /api/me if
\* and only if no account ID is configured; /api/me is then the first call
\* and the wallet request that follows is for the account_id it returned;
\* with an account ID configured the first and only call is the wallet
\* request for that ID
C32_MeOnlyWithoutConfiguredAccount ==
    calls # << >> =>
        IF AccountConfigured
        THEN /\ Len(calls) = 1
             /\ calls[1].path \in WalletPaths(ConfiguredAccount)
        ELSE /\ calls[1].path = "/api/me"
             /\ Len(calls) <= 2
             /\ Len(calls) = 2 => calls[2].path \in WalletPaths(ReturnedAccount(1))

\* /api/me first, then the balance of the account it named
C32_Witness ==
    /\ ~AccountConfigured
    /\ pc = "returned"
    /\ Len(calls) = 2
    /\ calls[1].path = "/api/me"
    /\ calls[2].path = "/api/wallet/ACCT-1/balance"

\* the configured account, and no /api/me
C32_WitnessConfigured ==
    /\ env.PAYWALLS_ACCOUNT_ID = "ENV-ACCT"
    /\ pc = "returned"
    /\ Len(calls) = 1
    /\ calls[1].path = "/api/wallet/ENV-ACCT/receipts"

---------------------------------------------------------------------------
(* balance and receipts: failures *)

\* the responses with a non-success status
NonSuccess == {n \in DOMAIN responses :
                 responses[n].kind = "http" /\ ~responseOk(responses[n].status)}

C33_WitnessMe ==
    /\ pc = "exited"
    /\ exitCode = 1
    /\ Len(calls) = 1
    /\ calls[1].path = "/api/me"
    /\ responses[1].status = 401

\* no key: nothing requested
C33_WitnessNoKey ==
    /\ ~CredentialsExist
    /\ pc = "exited"
    /\ exitCode = 1
    /\ calls = << >>

=============================================================================
